---- MODULE Spec2Model ----
(***************************************************************************)
(* dnsperf.cpp: the probe loop of main/dnsperf_do, the nameserver lookup   *)
(* of build_resolver, the timed query of resolve, the query-log insert of  *)
(* dnsperf_update_valtable and the aggregation of dnsperf_stats.           *)
(*                                                                         *)
(* The MySQL server and the ldns library are the environment: every call   *)
(* into them is a nondeterministic choice over the results the call can    *)
(* return (a packet or none, a stored row or a rejected statement).        *)
(***************************************************************************)
EXTENDS Integers, Sequences, FiniteSets, TLC

(* ------------------------------ bounds -------------------------------- *)

\* number of passes of the while(1) loop of main that are explored
MaxCycles == 3
\* number of rows the query log may hold
MaxRecords == 3

(* ------------------------- the monitored domains ----------------------- *)

\* the rows of the stats table are created for these names only (the first
\* two of the ten built-in names)
default_domains == {"google.com", "facebook.com"}

\* the rows of the domain table as dnsperf_get_domains returns them: a
\* built-in name and a name the operator added to the table
res_domains == <<"google.com", "example.org">>

num_rows == Len(res_domains)

\* the NS records the zone of each domain publishes
NSRecords(d) ==
  CASE d = "google.com" -> <<"ns1.google.com.", "ns2.google.com.">>
    [] OTHER -> <<"a.iana-servers.net.">>

\* an NS record without rdata: ldns_rr_rdf(rr, 0) is NULL
NullRdf == "<null>"

\* the answers an NS query can carry: no NS record at all, the first
\* records of the zone, all of them, or a record without a name
NSAnswers(d) ==
  {SubSeq(NSRecords(d), 1, k) : k \in 0..Len(NSRecords(d))} \cup {<<NullRdf>>}

\* the time, in microseconds, a nameserver of the domain takes to answer
Elapsed(d) ==
  CASE d = "google.com" -> {0, 100, 200, 300}
    [] OTHER -> {100}

\* the change applied to the system clock between the two gettimeofday
\* readings of resolve: none, or a step backwards (settimeofday, ntpd)
ClockSteps == {0, -200}

(* --------------------------- unsigned long ----------------------------- *)

\* An unsigned long of 64 bits holds base * 2^64 + off reduced modulo 2^64.
\* The values of the model are either small (base 0, off >= 0) or the wrap
\* of a small negative number (base 1, off < 0, the value 2^64 + off).
ToULong(x) == IF x < 0 THEN [base |-> 1, off |-> x] ELSE [base |-> 0, off |-> x]

ULongZero == [base |-> 0, off |-> 0]

IsZero(u) == u.base = 0 /\ u.off = 0

\* the column latency is BIGINT (signed, 64 bits): 2^64 + off with a small
\* negative off is above its largest value
FitsBIGINT(u) == u.base = 0

(* ------------------------------- resolve ------------------------------- *)

\* us1 = t2 - t1 in microseconds, both read with gettimeofday, assigned to an
\* unsigned long; 0 when ldns_resolver_query returned no packet
resolve(response, t1, t2) ==
  IF ~response THEN ULongZero ELSE ToULong(t2 - t1)

\* "if (!timevalue) continue;" in dnsperf_do
ProbeFailed_m9(timevalue) == FALSE

ProbeFailed(timevalue) == IsZero(timevalue)

(* ------------------------ the aggregate functions ---------------------- *)

RECURSIVE SeqSum(_)
SeqSum(s) == IF s = <<>> THEN 0 ELSE Head(s) + SeqSum(Tail(s))

RECURSIVE SeqMin(_)
SeqMin(s) ==
  IF Len(s) = 1 THEN s[1]
  ELSE LET m == SeqMin(Tail(s)) IN IF s[1] < m THEN s[1] ELSE m

RECURSIVE SeqMax(_)
SeqMax(s) ==
  IF Len(s) = 1 THEN s[1]
  ELSE LET m == SeqMax(Tail(s)) IN IF s[1] > m THEN s[1] ELSE m

RECURSIVE Pow10(_)
Pow10(k) == IF k = 0 THEN 1 ELSE 10 * Pow10(k - 1)

\* number of decimal digits of a natural number (0 has none)
RECURSIVE NumDigits(_)
NumDigits(x) == IF x = 0 THEN 0 ELSE 1 + NumDigits(x \div 10)

\* count(latency)
COUNT_m1(lat) == IF Len(lat) > 1 THEN Len(lat) - 1 ELSE Len(lat)

COUNT(lat) == Len(lat)

\* fractional digits of the quotient of AVG() over an integer column
\* (div_precision_increment of the server)
DivPrecision == 4

\* A decimal number ip + fp / 10^DivPrecision, 0 <= fp < 10^DivPrecision.
Dec(ip, fp) == [ip |-> ip, fp |-> fp]

\* avg(latency): the sum divided by the count, rounded to DivPrecision
\* fractional digits
AVG(lat) ==
  LET n == Len(lat)
      s == SeqSum(lat)
      scaled == 2 * (s % n) * Pow10(DivPrecision) + n
      fp == scaled \div (2 * n)
  IN IF fp = Pow10(DivPrecision) THEN Dec(s \div n + 1, 0) ELSE Dec(s \div n, fp)

\* stddev(latency) is STDDEV_POP: the square root of the mean of the squared
\* deviations from the mean.  The square root is kept symbolic: the result is
\* the fraction num / den whose square root the server returns.  The
\* variance does not change when every value is shifted by the same amount,
\* so it is computed on the distances to the smallest value.
SumSq(lat, base) ==
  SeqSum([k \in 1..Len(lat) |-> (lat[k] - base) * (lat[k] - base)])

STDDEV_m15(lat) == [num |-> SumSq(lat, 0), den |-> Len(lat)]

STDDEV_m2(lat) ==
  LET n == Len(lat)
      base == SeqMin(lat)
      s == SeqSum(lat) - n * base
  IN IF n = 1 THEN [num |-> 0, den |-> 1]
     ELSE [num |-> n * SumSq(lat, base) - s * s, den |-> n * (n - 1)]

STDDEV(lat) ==
  LET n == Len(lat)
      base == SeqMin(lat)
      s == SeqSum(lat) - n * base
  IN [num |-> n * SumSq(lat, base) - s * s, den |-> n * n]

\* significant digits of a double written with operator<< to the query
\* stream (the default precision of std::ostream)
SigDigits == 6

\* q, or q + 1 when the dropped part r of a unit is above one half, or is
\* one half and q is odd; more tells that digits below r are not all zero
RoundHalfEven(q, r, unit, more) ==
  IF 2 * r > unit \/ (2 * r = unit /\ (more \/ q % 2 = 1)) THEN q + 1 ELSE q

\* the value of the text that "query << avg" writes for the double avg: avg
\* rounded to SigDigits significant digits
StreamDouble(x) ==
  LET dg == NumDigits(x.ip)
  IN IF dg > SigDigits
     THEN LET unit == Pow10(dg - SigDigits)
          IN Dec(RoundHalfEven(x.ip \div unit, x.ip % unit, unit, x.fp > 0) * unit, 0)
     ELSE IF SigDigits - dg >= DivPrecision THEN x
     ELSE LET unit == Pow10(DivPrecision - (SigDigits - dg))
              q == RoundHalfEven(x.fp \div unit, x.fp % unit, unit, FALSE) * unit
          IN IF q = Pow10(DivPrecision) THEN Dec(x.ip + 1, 0) ELSE Dec(x.ip, q)

(* --------------------------- the query name ---------------------------- *)

\* A C string is a sequence of characters; in memory the byte NUL ends it.
NUL == "NUL"

\* size of the buffer the query name is built in
HOSTNAME_MAX == 50

\* width of the domain column of the domain table, CHAR(80)
DomainWidth == 80

\* a name of n characters under .org
LongDomain(n) == [k \in 1..(n - 4) |-> "x"] \o <<".", "o", "r", "g">>

\* The names the domain table can hold: one of the default kind, the longest
\* that leaves room for every label, one character more, and the widest.
TableDomains ==
  {<<"g", "o", "o", "g", "l", "e", ".", "c", "o", "m">>,
   LongDomain(HOSTNAME_MAX - 9), LongDomain(HOSTNAME_MAX - 8),
   LongDomain(DomainWidth)}

\* values of rand() % 1024: the least and the greatest, which are also the
\* shortest and the longest
RandValues == {0, 1023}

DigitChars == <<"0", "1", "2", "3", "4", "5", "6", "7", "8", "9">>

\* "%d" of a number that is not negative
RECURSIVE Decimal(_)
Decimal(n) ==
  IF n < 10 THEN <<DigitChars[n + 1]>>
  ELSE Decimal(n \div 10) \o <<DigitChars[(n % 10) + 1]>>

\* strlen: the bytes before the first NUL (all the bytes followed here when
\* none of them is NUL)
strlen(mem) ==
  IF \E k \in 1..Len(mem) : mem[k] = NUL
  THEN (CHOOSE k \in 1..Len(mem) :
          mem[k] = NUL /\ \A m \in 1..(k - 1) : mem[m] # NUL) - 1
  ELSE Len(mem)

\* the string a const char * to the start of mem denotes
CString(mem) == SubSeq(mem, 1, strlen(mem))

sprintf_m19(mem, off, text) ==
  [k \in 1..(IF off + Len(text) > Len(mem) THEN off + Len(text) ELSE Len(mem))
     |-> IF k > off /\ k <= off + Len(text) THEN text[k - off] ELSE mem[k]]

\* sprintf(mem + off, ...) that formats to text: the characters and the
\* terminating NUL go to mem[off], mem[off + 1], ... wherever that ends;
\* bytes past the end of mem are those of the objects that follow it
sprintf(mem, off, text) ==
  LET out == text \o <<NUL>>
      end == off + Len(out)
  IN [k \in 1..(IF end > Len(mem) THEN end ELSE Len(mem))
        |-> IF k > off /\ k <= end THEN out[k - off] ELSE mem[k]]

\* uint8_t
ToUint8(n) == n % 256

(* ------------------------------- state --------------------------------- *)

VARIABLES
  pc,             \* where main is: "build_resolver", "nameserver", "stats",
                  \* "sleep" or "exit" (the process has ended); within an
                  \* iteration of the nameserver loop, in SpecName:
                  \* "label", "append", "resolve"
  iter,           \* the passes completed (iter of main)
  i,              \* index of the domain in res_domains (1-based)
  j,              \* index of the nameserver in query_results (1-based)
  query_results,  \* the NS records build_resolver found for the domain
  valtable,       \* the rows of the query log, oldest first
  stattable,      \* the rows of the stats table, by domain
  now,            \* the reading of time(NULL), in seconds
  live,           \* the objects of the latest nameserver iteration that
                  \* were not freed when the iteration ended
  ev,             \* what the latest step did: its inputs and its outcome
  stats_calls,    \* by domain, the paths the two latest calls of
                  \* dnsperf_stats took since the last row of the domain
                  \* was logged (a history of the run, not a variable of
                  \* the program, like the three that follow)
  attempted,      \* the iterations of the nameserver loop run for the
                  \* domain in this pass, until dnsperf_stats returns
  succeeded,      \* whether resolve gave a latency in one of them
  recomputed,     \* the indexes of the domains dnsperf_stats was called
                  \* for in this pass
  dnsperf_hostname,      \* the bytes of the buffer, and after them the
                         \* bytes written past its end
  dnsperf_randhost_idx,
  domaintoquery,         \* the name the latest call of resolve was given
  probe                  \* the domain and the value of rand() of the
                         \* iteration that builds the name

vars == <<pc, iter, i, j, query_results, valtable, stattable, now, live, ev,
          stats_calls, attempted, succeeded, recomputed,
          dnsperf_hostname, dnsperf_randhost_idx, domaintoquery, probe>>

\* The bytes of the query name are followed by SpecName alone: the answer to
\* a probe is the environment's choice whatever the name, so the other
\* specifications leave these variables as they start.
nameVars == <<dnsperf_hostname, dnsperf_randhost_idx, domaintoquery, probe>>

\* the variables SpecName leaves as they start
runVars ==
  <<iter, i, j, query_results, valtable, stattable, now, live, stats_calls,
    attempted, succeeded, recomputed>>

\* static storage is zero-initialised
NoName ==
  /\ dnsperf_hostname = [k \in 1..HOSTNAME_MAX |-> NUL]
  /\ dnsperf_randhost_idx = 0
  /\ domaintoquery = <<>>
  /\ probe = [domain |-> <<>>, rand |-> 0]

domain == res_domains[i]

\* the rows of the query log "where domain = d"
RowsOf(log, d) == SelectSeq(log, LAMBDA r : r.domain = d)

Latencies(rows) == [k \in 1..Len(rows) |-> rows[k].latency]

Timestamps(rows) == [k \in 1..Len(rows) |-> rows[k].timestamp]

\* op: the function that ran; path: the branch it took; response, elapsed,
\* adj: whether a packet came back, the time it truly took and the clock step
\* during the query; timevalue: the result of resolve; storage_failed: the
\* storage operation that failed in the step ("" when none did); reported:
\* whether the step wrote a message about a failure to cout or cerr
NoEvent ==
  [op |-> "none", domain |-> "", ns |-> "", path |-> "", response |-> FALSE,
   elapsed |-> 0, adj |-> 0, timevalue |-> ULongZero, storage_failed |-> "",
   reported |-> FALSE]

\* The history of the calls of dnsperf_stats: for each domain index the
\* paths of the call before the latest and of the latest, "none" where there
\* was no call since the log of the domain last changed.  Only the
\* specification that compares the calls of different passes keeps it
\* (SpecSilent); elsewhere it is the empty function, which no step changes.
NotFollowed == [d \in {} |-> <<>>]

NoCalls == [k \in 1..num_rows |-> <<"none", "none">>]

\* dnsperf_stats(d) returned by the branch path
AfterCall(h, k, path) ==
  IF h = NotFollowed THEN h ELSE [h EXCEPT ![k] = <<h[k][2], path>>]

\* a row of the domain was inserted into the query log
AfterInsert(h, k) ==
  IF h = NotFollowed THEN h ELSE [h EXCEPT ![k] = <<"none", "none">>]

\* values (domain, 0, 0, 0, 0, 0) of dnsperf_create_stattable
ZeroRow ==
  [average |-> Dec(0, 0), stddev |-> [num |-> 0, den |-> 1], count |-> 0,
   first |-> 0, last |-> 0]

Init ==
  /\ pc = "build_resolver"
  /\ iter = 0
  /\ i = 1
  /\ j = 1
  /\ query_results = <<>>
  /\ valtable = <<>>
  /\ stattable = [d \in default_domains |-> ZeroRow]
  /\ now = 1
  /\ live = {}
  /\ ev = NoEvent
  /\ stats_calls = NotFollowed
  /\ attempted = 0
  /\ succeeded = FALSE
  /\ recomputed = {}
  /\ NoName

(* --------------------------- build_resolver ---------------------------- *)

\* ldns_dname_new_frm_str fails, ldns_resolver_new_frm_file fails, or the NS
\* query returns no packet: a message on cout and exit(EXIT_FAILURE)
ConfigFailures == {"dname_failed", "no_resolv_conf", "no_packet"}

BuildResolverFails ==
  /\ pc = "build_resolver"
  /\ \E cause \in ConfigFailures :
       ev' = [NoEvent EXCEPT !.op = "build_resolver", !.domain = domain,
                             !.path = cause, !.reported = TRUE]
  /\ pc' = "exit"
  /\ UNCHANGED <<iter, i, j, query_results, valtable, stattable, now, live,
                 stats_calls, attempted, succeeded, recomputed>>
  /\ UNCHANGED nameVars

BuildResolverAnswers_m18 ==
  /\ pc = "build_resolver"
  /\ \E ans \in NSAnswers(domain) :
       /\ query_results' = ans
       /\ pc' = IF Len(ans) = 0 THEN "exit" ELSE "nameserver"
       /\ ev' = [NoEvent EXCEPT !.op = "build_resolver", !.domain = domain,
                               !.path = IF Len(ans) = 0 THEN "no_ns" ELSE "answer"]
  /\ j' = 1
  /\ live' = {}
  /\ UNCHANGED <<iter, i, valtable, stattable, now, stats_calls,
                 attempted, succeeded, recomputed>>
  /\ UNCHANGED nameVars

\* the NS query returned a packet; query_results are its NS records (a NULL
\* list has ldns_rr_list_rr_count 0, so the nameserver loop is not entered)
BuildResolverAnswers ==
  /\ pc = "build_resolver"
  /\ \E ans \in NSAnswers(domain) :
       /\ query_results' = ans
       /\ pc' = IF Len(ans) = 0 THEN "stats" ELSE "nameserver"
       /\ ev' = [NoEvent EXCEPT !.op = "build_resolver", !.domain = domain,
                               !.path = IF Len(ans) = 0 THEN "no_ns" ELSE "answer"]
  /\ j' = 1
  /\ live' = {}
  /\ UNCHANGED <<iter, i, valtable, stattable, now, stats_calls,
                 attempted, succeeded, recomputed>>
  /\ UNCHANGED nameVars

(* ---------------------- the nameserver loop body ----------------------- *)

NextNameserver_m16 ==
  /\ j' = j + 1
  /\ pc' = IF j + 1 >= Len(query_results) THEN "stats" ELSE "nameserver"

\* j++ and the loop test j < nr_nameservers
NextNameserver ==
  /\ j' = j + 1
  /\ pc' = IF j + 1 > Len(query_results) THEN "stats" ELSE "nameserver"

\* "if (!ns_name) return 1;" and main's "Failed", return 1
NameserverNull ==
  /\ pc = "nameserver"
  /\ query_results[j] = NullRdf
  /\ pc' = "exit"
  /\ live' = {"resolver", "iplist"}
  /\ ev' = [NoEvent EXCEPT !.op = "dnsperf_do", !.domain = domain,
                          !.path = "ns_null", !.reported = TRUE]
  /\ UNCHANGED <<iter, i, j, query_results, valtable, stattable, now,
                 stats_calls, attempted, succeeded, recomputed>>
  /\ UNCHANGED nameVars

\* resolve: ldns_dname_new_frm_str(domaintoquery) fails, exit(EXIT_FAILURE)
QueryNameFails ==
  /\ pc = "nameserver"
  /\ query_results[j] # NullRdf
  /\ pc' = "exit"
  /\ live' = {"resolver", "iplist", "nameserver"}
  /\ ev' = [NoEvent EXCEPT !.op = "resolve", !.domain = domain,
                          !.ns = query_results[j], !.path = "dname_failed",
                          !.reported = TRUE]
  /\ UNCHANGED <<iter, i, j, query_results, valtable, stattable, now,
                 stats_calls, attempted, succeeded, recomputed>>
  /\ UNCHANGED nameVars

\* gettimeofday: microseconds of the wall clock at the second now
Micros(sec, usec) == sec * 1000000 + usec

\* the row dnsperf_update_valtable inserts
QueryRecord(d, nameserver, timevalue, date) ==
  [domain |-> d, latency |-> timevalue.off, timestamp |-> date,
   nameserver |-> nameserver]

\* One iteration from resolver_new to the end of the body: the query takes
\* elapsed microseconds, the clock is stepped by adj meanwhile, and the
\* server stores the row or rejects the statement.
Probe(response, elapsed, adj, stored) ==
  LET t1 == Micros(now, 500000)
      t2 == t1 + elapsed + adj
      timevalue == resolve(response, t1, t2)
      nameserver == query_results[j]
      e == [NoEvent EXCEPT !.op = "resolve", !.domain = domain,
                           !.ns = nameserver, !.response = response,
                           !.elapsed = elapsed, !.adj = adj,
                           !.timevalue = timevalue]
  IN /\ pc = "nameserver"
     /\ nameserver # NullRdf
     /\ IF ProbeFailed(timevalue)
        THEN \* continue: nothing is freed, nothing is logged
             /\ valtable' = valtable
             /\ live' = {"resolver", "iplist", "nameserver"}
             /\ ev' = [e EXCEPT !.path = "continue"]
             /\ stats_calls' = stats_calls
        ELSE /\ live' = {}
             /\ IF stored
                THEN /\ valtable' = Append(valtable,
                           QueryRecord(domain, nameserver, timevalue, now))
                     /\ ev' = [e EXCEPT !.path = "logged"]
                     /\ stats_calls' = AfterInsert(stats_calls, i)
                ELSE \* query.execute returns false: the connection was made
                     \* with exceptions off and the result is not looked at
                     /\ valtable' = valtable
                     /\ ev' = [e EXCEPT !.path = "insert_failed",
                                        !.storage_failed = "insert"]
                     /\ stats_calls' = stats_calls
     /\ NextNameserver
     /\ attempted' = attempted + 1
     /\ succeeded' = (succeeded \/ ~ProbeFailed(timevalue))
     /\ UNCHANGED <<iter, i, query_results, stattable, now, recomputed>>
     /\ UNCHANGED nameVars

\* whether the server can store a row with this latency: the query log has
\* room (the bound of the model) and the value is in the range of the column
CanStore(timevalue) == Len(valtable) < MaxRecords /\ FitsBIGINT(timevalue)

\* no packet came back (timeout, unreachable nameserver, no address found
\* for the nameserver); the server would store a row or reject it
ProbeNoPacket ==
  \E stored \in BOOLEAN :
    /\ stored => CanStore(ULongZero)
    /\ Probe(FALSE, 0, 0, stored)

\* a packet came back; the server stores a row or rejects it
ProbeAnswered ==
  \E elapsed \in Elapsed(domain), adj \in ClockSteps, stored \in BOOLEAN :
    /\ stored => CanStore(ToULong(elapsed + adj))
    /\ Probe(TRUE, elapsed, adj, stored)

(* ---------------------------- dnsperf_stats ---------------------------- *)

StatsRow_m13(rows) ==
  [average |-> StreamDouble(AVG(Latencies(rows))),
   stddev |-> STDDEV(Latencies(rows)),
   count |-> COUNT(Latencies(rows)),
   first |-> Timestamps(rows)[1],
   last |-> Timestamps(rows)[Len(rows)]]

\* the values of the aggregate query over the rows of one domain, as the
\* UPDATE statement carries them; the deviation is printed like the average,
\* with SigDigits significant digits of the square root of the fraction kept
\* here
StatsRow(rows) ==
  [average |-> StreamDouble(AVG(Latencies(rows))),
   stddev |-> STDDEV(Latencies(rows)),
   count |-> COUNT(Latencies(rows)),
   first |-> SeqMin(Timestamps(rows)),
   last |-> SeqMax(Timestamps(rows))]

UpdateStats_m11(table, d, row) ==
  IF d \in DOMAIN table
  THEN [table EXCEPT ![d] = [row EXCEPT !.count = table[d].count + row.count]]
  ELSE table

\* "update ... where domain = d": changes the rows that exist
UpdateStats(table, d, row) ==
  IF d \in DOMAIN table THEN [table EXCEPT ![d] = row] ELSE table

\* after dnsperf_stats: the frees, i++ and the loop test i < num_rows
NextDomain ==
  /\ i' = IF i + 1 > num_rows THEN 1 ELSE i + 1
  /\ pc' = IF i + 1 > num_rows THEN "sleep" ELSE "build_resolver"
  /\ query_results' = <<>>
  /\ j' = 1
  /\ live' = {}

StatsEvent(path, failed, reported) ==
  [NoEvent EXCEPT !.op = "dnsperf_stats", !.domain = domain, !.path = path,
                  !.storage_failed = failed, !.reported = reported]

\* dnsperf_stats returns by the branch path
StatsReturns(path, failed, reported) ==
  /\ ev' = StatsEvent(path, failed, reported)
  /\ stats_calls' = AfterCall(stats_calls, i, path)
  /\ recomputed' = recomputed \cup {i}
  /\ attempted' = 0
  /\ succeeded' = FALSE
  /\ UNCHANGED nameVars

\* conn.connect fails: the body is skipped and 0 is returned
StatsConnectFails ==
  /\ pc = "stats"
  /\ StatsReturns("connect_failed", "connect", FALSE)
  /\ NextDomain
  /\ UNCHANGED <<iter, valtable, stattable, now>>

StatsNoRecords_m17 ==
  /\ pc = "stats"
  /\ ~succeeded
  /\ StatsReturns("no_records", "", FALSE)
  /\ NextDomain
  /\ UNCHANGED <<iter, valtable, stattable, now>>

StatsNoRecords_m12 ==
  /\ pc = "stats"
  /\ RowsOf(valtable, domain) = <<>>
  /\ stattable' = UpdateStats(stattable, domain, ZeroRow)
  /\ StatsReturns("no_records", "", FALSE)
  /\ NextDomain
  /\ UNCHANGED <<iter, valtable, now>>

\* the domain has no row in the query log: return 1
StatsNoRecords ==
  /\ pc = "stats"
  /\ RowsOf(valtable, domain) = <<>>
  /\ StatsReturns("no_records", "", FALSE)
  /\ NextDomain
  /\ UNCHANGED <<iter, valtable, stattable, now>>

\* one of the two selects fails: the first gives an empty result (return 1),
\* the second writes "Failed to get ... table" to cerr (return 1)
StatsSelectFails ==
  /\ pc = "stats"
  /\ \E which \in {"check", "aggregate"} :
       /\ which = "aggregate" => RowsOf(valtable, domain) # <<>>
       /\ StatsReturns("select_failed", "select", which = "aggregate")
  /\ NextDomain
  /\ UNCHANGED <<iter, valtable, stattable, now>>

\* the UPDATE is executed
StatsUpdate ==
  /\ pc = "stats"
  /\ RowsOf(valtable, domain) # <<>>
  /\ stattable' = UpdateStats(stattable, domain, StatsRow(RowsOf(valtable, domain)))
  /\ StatsReturns(IF domain \in DOMAIN stattable THEN "updated" ELSE "no_row",
                      "", FALSE)
  /\ NextDomain
  /\ UNCHANGED <<iter, valtable, now>>

\* the UPDATE fails: query.store() gives an empty result, as it does for
\* every UPDATE, so "if (res_stats)" is not taken and 0 is returned
StatsUpdateFails ==
  /\ pc = "stats"
  /\ RowsOf(valtable, domain) # <<>>
  /\ StatsReturns("update_failed", "update", FALSE)
  /\ NextDomain
  /\ UNCHANGED <<iter, valtable, stattable, now>>

(* -------------------------------- main --------------------------------- *)

\* the readings of time(NULL), in seconds since the start of the run
ClockReadings == {1, 2}

\* the readings time(NULL) can give after the pause: the next second, or the
\* second before when the clock was set back
ClockAfter(t) == {t - 1, t + 1} \cap ClockReadings

\* "Iteration n done, sleeping": ++iter, usleep, and the next pass
Sleep ==
  /\ pc = "sleep"
  /\ iter + 1 < MaxCycles
  /\ iter' = iter + 1
  /\ pc' = "build_resolver"
  /\ now' \in ClockAfter(now)
  /\ ev' = [NoEvent EXCEPT !.op = "sleep"]
  /\ UNCHANGED <<i, j, query_results, valtable, stattable, live, stats_calls,
                 attempted, succeeded>>
  /\ UNCHANGED nameVars
  /\ recomputed' = {}

Next ==
  \/ BuildResolverFails
  \/ BuildResolverAnswers
  \/ NameserverNull
  \/ QueryNameFails
  \/ ProbeNoPacket
  \/ ProbeAnswered
  \/ StatsConnectFails
  \/ StatsNoRecords
  \/ StatsSelectFails
  \/ StatsUpdate
  \/ StatsUpdateFails
  \/ Sleep

Spec == Init /\ [][Next]_vars

(* ------------------- dnsperf_stats on a stored log --------------------- *)

\* The query log outlives the process.  The second specification starts at
\* the call of dnsperf_stats for one domain, with the rows that earlier
\* passes and earlier runs left for it, and takes the one step of the call.

\* the latencies of the rows of a domain: those of a near nameserver, or
\* those of a nameserver that answers after a second
PastLatencies(d) ==
  IF d = "google.com" THEN {{100, 200, 300}, {1000001, 1000003}} ELSE {{100}}

PastRows(d, lats) ==
  {QueryRecord(d, NSRecords(d)[1], ToULong(l), t) : l \in lats, t \in ClockReadings}

PastLogs(d) ==
  UNION {[1..k -> PastRows(d, lats)] : k \in 0..MaxRecords, lats \in PastLatencies(d)}

\* The stats table outlives the process and the query log too (each table
\* is created when it is missing): the row of a default domain is the one
\* dnsperf_create_stattable inserted, or the one an earlier call computed
\* from a log of one row.
PastStats(d) ==
  {ZeroRow} \cup {StatsRow(log) : log \in {l \in PastLogs(d) : Len(l) = 1}}

StatsInit ==
  /\ pc = "stats"
  /\ iter = 0
  /\ i \in 1..num_rows
  /\ j = 1
  /\ query_results = <<>>
  /\ valtable \in PastLogs(res_domains[i])
  /\ \E row \in PastStats(res_domains[i]) :
       stattable = [d \in default_domains |->
                      IF d = res_domains[i] THEN row ELSE ZeroRow]
  /\ now = 1
  /\ live = {}
  /\ ev = NoEvent
  /\ stats_calls = NotFollowed
  /\ attempted = 0
  /\ succeeded = FALSE
  /\ recomputed = {}
  /\ NoName

StatsNext ==
  \/ StatsConnectFails
  \/ StatsNoRecords
  \/ StatsSelectFails
  \/ StatsUpdate
  \/ StatsUpdateFails

SpecStats == StatsInit /\ [][StatsNext]_vars

(* ------------------- passes in which no probe answers ------------------ *)

\* The third specification follows the calls of dnsperf_stats from one pass
\* to the next.  It starts a run on a stored log and lets every NS query be
\* answered and no probe be answered, so that the log stays as it is between
\* the calls, and it keeps the history of the calls.

\* the stored logs of one domain whose rows were all logged in one second
SilentLogs ==
  {log \in UNION {PastLogs(res_domains[k]) : k \in 1..num_rows} :
     \A k \in 1..Len(log) : log[k].timestamp = 1}

SilentInit ==
  /\ pc = "build_resolver"
  /\ iter = 0
  /\ i = 1
  /\ j = 1
  /\ query_results = <<>>
  /\ valtable \in SilentLogs
  /\ stattable = [d \in default_domains |-> ZeroRow]
  /\ now = 1
  /\ live = {}
  /\ ev = NoEvent
  /\ stats_calls = NoCalls
  /\ attempted = 0
  /\ succeeded = FALSE
  /\ recomputed = {}
  /\ NoName

SilentNext ==
  \/ BuildResolverAnswers
  \/ ProbeNoPacket
  \/ StatsConnectFails
  \/ StatsNoRecords
  \/ StatsSelectFails
  \/ StatsUpdate
  \/ StatsUpdateFails
  \/ Sleep

SpecSilent == SilentInit /\ [][SilentNext]_vars

(* ---------------------- building the query name ------------------------ *)

\* The fourth specification follows the bytes of dnsperf_hostname through
\* the iterations of the nameserver loop, for the domains the domain table
\* can hold.  Each iteration takes a domain (the one of the iteration before
\* or the next one of the table) and a value of rand().

NameInit ==
  /\ pc = "label"
  /\ iter = 0
  /\ i = 1
  /\ j = 1
  /\ query_results = <<>>
  /\ valtable = <<>>
  /\ stattable = [d \in default_domains |-> ZeroRow]
  /\ now = 1
  /\ live = {}
  /\ ev = NoEvent
  /\ stats_calls = NotFollowed
  /\ attempted = 0
  /\ succeeded = FALSE
  /\ recomputed = {}
  /\ NoName

\* sprintf(dnsperf_hostname, "foo%d", rand() % 1024);
\* dnsperf_randhost_idx = strlen(dnsperf_hostname);
RandomLabel ==
  /\ pc = "label"
  /\ \E d \in TableDomains, r \in RandValues :
       /\ probe' = [domain |-> d, rand |-> r]
       /\ dnsperf_hostname' =
            sprintf(dnsperf_hostname, 0, <<"f", "o", "o">> \o Decimal(r))
  /\ dnsperf_randhost_idx' = ToUint8(strlen(dnsperf_hostname'))
  /\ pc' = "append"
  /\ ev' = [NoEvent EXCEPT !.op = "sprintf", !.path = "label"]
  /\ UNCHANGED domaintoquery
  /\ UNCHANGED runVars

\* the bytes sprintf(dnsperf_hostname + dnsperf_randhost_idx, ".%s", domain)
\* writes end within the buffer
AppendFits ==
  dnsperf_randhost_idx + 1 + Len(probe.domain) + 1 <= HOSTNAME_MAX

\* the values dnsperf_randhost_idx can hold after the call: its own, or,
\* when the bytes run over the objects declared after the buffer, the code
\* of a character of the name ('x' is 120)
IdxAfterAppend ==
  IF AppendFits THEN {dnsperf_randhost_idx} ELSE {dnsperf_randhost_idx, 120}

\* sprintf(dnsperf_hostname + dnsperf_randhost_idx, ".%s", domain)
AppendDomain ==
  /\ pc = "append"
  /\ dnsperf_hostname' =
       sprintf(dnsperf_hostname, dnsperf_randhost_idx, <<".">> \o probe.domain)
  /\ dnsperf_randhost_idx' \in IdxAfterAppend
  /\ pc' = "resolve"
  /\ ev' = [NoEvent EXCEPT !.op = "sprintf",
                          !.path = IF AppendFits THEN "domain" ELSE "overrun"]
  /\ UNCHANGED <<domaintoquery, probe>>
  /\ UNCHANGED runVars

\* The write past the end of the array is undefined: the bytes go to the
\* objects that follow (AppendDomain), or a build that checks the size of
\* the destination ends the process.
AppendAborts ==
  /\ pc = "append"
  /\ ~AppendFits
  /\ pc' = "exit"
  /\ ev' = [NoEvent EXCEPT !.op = "sprintf", !.path = "abort"]
  /\ UNCHANGED nameVars
  /\ UNCHANGED runVars

\* timevalue = resolve(dnsperf_hostname, resolver, date): the name resolve
\* reads; the probe itself is not followed here
CallResolve ==
  /\ pc = "resolve"
  /\ domaintoquery' = CString(dnsperf_hostname)
  /\ pc' = "label"
  /\ ev' = [NoEvent EXCEPT !.op = "call_resolve"]
  /\ UNCHANGED <<dnsperf_hostname, dnsperf_randhost_idx, probe>>
  /\ UNCHANGED runVars

NameNext ==
  \/ RandomLabel
  \/ AppendDomain
  \/ AppendAborts
  \/ CallResolve

SpecName == NameInit /\ [][NameNext]_vars

(* ============================ properties =============================== *)

\* dnsperf_stats has just returned for domain d
StatsRan(d) == ev.op = "dnsperf_stats" /\ ev.domain = d

\* dnsperf_stats has just executed its UPDATE for d and d has a stats row
StatsWritten(d) == StatsRan(d) /\ ev.path = "updated"

LatenciesOf(d) == Latencies(RowsOf(valtable, d))

\* n * n times the sum of the squared deviations of the values from their
\* mean: the sum of (n * x - sum)^2
SqDevN(lat) ==
  SeqSum([k \in 1..Len(lat) |->
            (Len(lat) * lat[k] - SeqSum(lat)) * (Len(lat) * lat[k] - SeqSum(lat))])

\* the fraction f is the sum of the squared deviations divided by divisor
IsVariance(f, lat, divisor) ==
  f.num * (Len(lat) * Len(lat) * divisor) = f.den * SqDevN(lat)

(* ---- C1 ---- *)

C3_LookupFailureDoesNotStop ==
  (ev.op = "build_resolver" /\ ev.path \in ConfigFailures) => pc # "exit"

(* ---- C4 ---- *)

\* C4 as stated: a probe that receives a response with a measured latency of
\* exactly 0 microseconds goes to the insert of the query log like any other
\* successful probe; it is never handled as "no result".
C4_ZeroLatencyIsLogged ==
  (ev.op = "resolve" /\ ev.response /\ IsZero(ev.timevalue)) =>
    ev.path \in {"logged", "insert_failed"}

(* ---- C5 ---- *)

\* C5 as stated: a failure while probing one nameserver (a nameserver record
\* without a name, a query name that cannot be built, a probe without a
\* response) never ends the process.
C5_ProbeFailureDoesNotStop ==
  (/\ ev.op \in {"dnsperf_do", "resolve"}
   /\ ev.path \in {"ns_null", "dname_failed", "continue"}) => pc # "exit"

(* ---- C6 ---- *)

\* C6 as stated: whenever the insert into the query log, the UPDATE of the
\* stats table or the connection of dnsperf_stats fails, the step reports the
\* failure and the process goes on.
C6_StorageFailureIsReported ==
  ev.storage_failed \in {"insert", "connect", "update"} =>
    (ev.reported /\ pc # "exit")

(* ---- C7 ---- *)

\* C7 as stated: for every domain of the domain table that has at least one
\* row in the query log, once dnsperf_stats has run for it without a storage
\* failure, the stats table has a row for the domain and the row holds the
\* values computed from all the rows of the domain.
C7_EveryMonitoredDomainHasItsRow ==
  \A k \in 1..num_rows :
    (/\ StatsRan(res_domains[k])
     /\ ev.storage_failed = ""
     /\ RowsOf(valtable, res_domains[k]) # <<>>) =>
      /\ res_domains[k] \in DOMAIN stattable
      /\ stattable[res_domains[k]] = StatsRow(RowsOf(valtable, res_domains[k]))

(* ---- C8 ---- *)

\* C8 as stated: the latency resolve returns for a probe that got a response
\* is the time the query truly took, whatever happens to the system clock
\* between the two readings; it is never a wrapped unsigned difference.
C8_LatencyIsElapsedTime ==
  (ev.op = "resolve" /\ ev.response) => ev.timevalue = ToULong(ev.elapsed)

(* ---- C9 ---- *)

\* C9: when resolve gets no response packet, no row is added to the query
\* log in that iteration and dnsperf_do goes on with the next nameserver of
\* the domain, or leaves the nameserver loop of the domain after the last one.
C9_NoPacketNoRecord ==
  [][(/\ pc = "nameserver"
      /\ ev'.op = "resolve"
      /\ ev'.path # "dname_failed"
      /\ ~ev'.response) =>
       /\ valtable' = valtable
       /\ i' = i
       /\ j' = j + 1
       /\ pc' = IF j < Len(query_results) THEN "nameserver" ELSE "stats"]_vars

\* the first nameserver of a domain gave no packet and the loop is at the
\* second one
C9_Witness ==
  /\ ev.op = "resolve"
  /\ ~ev.response
  /\ ev.path = "continue"
  /\ pc = "nameserver"
  /\ j = 2

(* ---- C10 ---- *)

\* the decimal number x differs from sum / n by at most 10^-DivPrecision
NearMean(x, lat) ==
  LET n == Len(lat)
      diff == Pow10(DivPrecision) * (n * x.ip - SeqSum(lat)) + n * x.fp
  IN -n <= diff /\ diff <= n

\* C10 as stated: for a domain with n >= 1 recorded latencies the mean
\* written by dnsperf_stats is the sum of the latencies divided by n (read
\* with a tolerance of one unit of the last digit AVG() returns).
C10_MeanIsArithmeticMean ==
  \A d \in DOMAIN stattable :
    StatsWritten(d) => NearMean(stattable[d].average, LatenciesOf(d))

(* ---- C11 ---- *)

\* the paths of dnsperf_stats on which every storage operation of the call
\* was carried out
Completed == {"no_records", "updated", "no_row"}

C12_NoRecordsNothingWritten ==
  [][(pc = "stats" /\ ev'.op = "dnsperf_stats"
        /\ RowsOf(valtable, domain) = <<>>)
       => stattable' = stattable]_vars

\* dnsperf_stats has returned for google.com, whose log is empty, and the
\* row an earlier run computed is still there
C12_Witness ==
  /\ StatsRan("google.com")
  /\ ev.path = "no_records"
  /\ RowsOf(valtable, "google.com") = <<>>
  /\ stattable["google.com"].count = 1

(* ---- C13 ---- *)

TimestampsOf(d) == Timestamps(RowsOf(valtable, d))

\* first and last of the row of d are the least and the greatest timestamp
\* of the rows of d in the query log, and every row lies between them
SpansLog(d) ==
  LET ts == TimestampsOf(d)
      row == stattable[d]
  IN /\ row.first = SeqMin(ts)
     /\ row.last = SeqMax(ts)
     /\ row.first <= row.last
     /\ \A k \in 1..Len(ts) : row.first <= ts[k] /\ ts[k] <= row.last

C14_NoTerminalState ==
  [][/\ pc' # "exit"
     /\ pc = "sleep" => (pc' = "build_resolver" /\ i' = 1 /\ iter' = iter + 1)
    ]_vars

(* ---- C15 ---- *)

\* C15: when dnsperf_stats has written the row of a domain that has exactly
\* one row in the query log, the stddev of the row is 0 and its count is 1,
\* and its average is the latency of that row when the latency has no more
\* digits than the statement carries; so a domain with two nameservers of
\* which one answers and the other times out ends its first pass with one
\* row, count 1, the latency as the mean and stddev 0.
C15_OneRecordStddevZero ==
  \A d \in DOMAIN stattable :
    (StatsWritten(d) /\ Len(LatenciesOf(d)) = 1)
      => /\ stattable[d].stddev.num = 0
         /\ stattable[d].count = 1
         /\ LatenciesOf(d)[1] < Pow10(SigDigits)
              => stattable[d].average = Dec(LatenciesOf(d)[1], 0)

\* the first pass over google.com: the probe of the first nameserver left no
\* row, the second nameserver answered after 100 microseconds, and the call
\* of dnsperf_stats wrote count 1, mean 100 and stddev 0
C15_Witness ==
  /\ StatsWritten("google.com")
  /\ iter = 0
  /\ valtable = <<QueryRecord("google.com", NSRecords("google.com")[2],
                               ToULong(100), 1)>>
  /\ stattable["google.com"].count = 1
  /\ stattable["google.com"].average = Dec(100, 0)
  /\ stattable["google.com"].stddev.num = 0

(* ---- C16 ---- *)

\* C16: dnsperf_stats is called for a domain only when the nameserver loop
\* has run for every NS record build_resolver found for it in this pass
\* (whether the probe gave a latency or not), and only when it was not
\* called for the domain earlier in the pass.
C16_RecomputedOnceAfterAllNameservers ==
  [][ev'.op = "dnsperf_stats"
       => /\ pc = "stats"
          /\ ev'.domain = res_domains[i]
          /\ attempted = Len(query_results)
          /\ i \notin recomputed
          /\ recomputed' = recomputed \cup {i}]_vars

\* the second pass: both nameservers of google.com were probed and logged
\* at second 2, then dnsperf_stats ran, for the first time in this pass
C16_Witness ==
  /\ StatsWritten("google.com")
  /\ iter = 1
  /\ recomputed = {1}
  /\ \A k \in 1..2 :
       \E r \in 1..Len(valtable) :
         /\ valtable[r].nameserver = NSRecords("google.com")[k]
         /\ valtable[r].timestamp = 2

(* ---- C17 ---- *)

\* the call issued the aggregate select (avg, stddev, count, min, max)
AggregateRun(e) ==
  \/ e.path \in {"updated", "no_row", "update_failed"}
  \/ e.path = "select_failed" /\ e.reported

\* the call connected and its first select, the check for rows of the
\* domain, was executed
CheckDone(e) ==
  /\ e.path # "connect_failed"
  /\ ~(e.path = "select_failed" /\ ~e.reported)

\* C17 as stated: when the nameservers of a domain are exhausted, the
\* aggregation for the domain is run if a probe of the domain succeeded in
\* this pass and is not run if none did, whatever rows earlier passes left.
\* (Calls that cannot connect or check, and probes whose row the server
\* rejected, are left aside.)
\* dnsperf_do calls dnsperf_stats in every case, and dnsperf_stats looks for
\* rows of the domain in the whole log, not for a success of this pass.
C17_AggregationIffProbeSucceeded ==
  [][(ev'.op = "dnsperf_stats" /\ CheckDone(ev'))
       => /\ (succeeded /\ RowsOf(valtable, domain) # <<>>)
               => AggregateRun(ev')
          /\ ~succeeded => ~AggregateRun(ev')]_vars

\* C17 as amended: the aggregation is run if and only if the call connects,
\* its check is executed and the query log holds a row of the domain, from
\* this pass or from an earlier one.
C17_AggregationIffDomainHasRecords ==
  [][ev'.op = "dnsperf_stats"
       => (AggregateRun(ev')
             <=> (CheckDone(ev') /\ RowsOf(valtable, domain) # <<>>))]_vars

\* the second pass, at second 2, logged nothing for google.com, and the
\* statistics were computed again from the rows of the first pass
C17_Witness ==
  /\ StatsWritten("google.com")
  /\ iter = 1
  /\ now = 2
  /\ RowsOf(valtable, "google.com") # <<>>
  /\ \A r \in 1..Len(valtable) : valtable[r].timestamp = 1

(* ---- C18 ---- *)

\* C18: when the NS query of build_resolver is answered without NS records,
\* the nameserver loop is not entered (no probe, no row in the query log),
\* the process does not end, and the next step is the call of dnsperf_stats,
\* after which dnsperf_do goes on with the next domain or the pass ends.
C18_NoNameserversDomainSkipped ==
  [][/\ (ev'.op = "build_resolver" /\ ev'.path = "no_ns")
          => /\ pc' = "stats"
             /\ query_results' = <<>>
             /\ attempted' = 0
             /\ valtable' = valtable
     /\ (pc = "stats" /\ query_results = <<>>)
          => /\ attempted = 0
             /\ ev'.op = "dnsperf_stats"
             /\ valtable' = valtable
             /\ i' = (i % num_rows) + 1
             /\ pc' = IF i = num_rows THEN "sleep" ELSE "build_resolver"
    ]_vars

\* the second pass: the NS query for google.com brought no NS record, the
\* log holds what the first pass logged, and dnsperf_stats is next
C18_Witness ==
  /\ ev.op = "build_resolver"
  /\ ev.path = "no_ns"
  /\ ev.domain = "google.com"
  /\ pc = "stats"
  /\ iter = 1
  /\ attempted = 0
  /\ Len(valtable) = 2

(* ---- C19 ---- *)

\* C19: the name given to resolve is the label built for this iteration
\* ("foo" and the digits of its value of rand()), a dot and the domain of
\* this iteration, and nothing else: no character of the name of an earlier
\* iteration or of another domain is in it.
C19_QueryNameIsLabelDotDomain ==
  ev.op = "call_resolve"
    => domaintoquery =
         <<"f", "o", "o">> \o Decimal(probe.rand) \o <<".">> \o probe.domain

\* resolve is given foo0.google.com while the buffer still holds, after the
\* NUL, the end of a longer name built before
C19_Witness ==
  /\ ev.op = "call_resolve"
  /\ probe.rand = 0
  /\ Len(probe.domain) = 10
  /\ Len(domaintoquery) = 15
  /\ \E k \in 17..HOSTNAME_MAX : dnsperf_hostname[k] # NUL

(* ---- C20 ---- *)

\* C20: for every domain the domain table can hold, the name and its NUL
\* fit in the HOSTNAME_MAX bytes of dnsperf_hostname: no byte is written
\* past the end of the buffer and no build ends the process over it.
C20_NameFitsBuffer ==
  /\ Len(dnsperf_hostname) <= HOSTNAME_MAX
  /\ ev.op = "sprintf" => ev.path \in {"label", "domain"}

(* ---- C21 ---- *)

\* C21: when an iteration of the nameserver loop has ended and the loop goes
\* on to the next nameserver or, after the last one, to the statistics of
\* the domain, none of the objects the iteration allocated (the resolver,
\* the address list, the nameserver string) is still allocated, whether the
\* probe failed or succeeded.
C21_NoLiveResourcesAtNextIteration ==
  (ev.op = "resolve" /\ pc \in {"nameserver", "stats"}) => live = {}

====
